---- MODULE Spec2Model ----
(***************************************************************************)
(* A model of gen_base.py, the random program generator for the "base"    *)
(* language.                                                               *)
(*                                                                         *)
(* Generated text is modelled by what a structural scanner sees of it     *)
(* (a value of "Str" below): the profile of its block brackets, the       *)
(* profile of its parentheses, the effect it has on a statement scanner,  *)
(* and the list of the units it is made of.  Concatenation of text is     *)
(* Cat, which composes these exactly.  Every random draw of the code is a *)
(* nondeterministic choice, so a generator is the set of texts it can     *)
(* return.  The recursion between generate_block, rand_stmts and          *)
(* generate_random_statment, which has no bound in the code, runs on an   *)
(* explicit call stack and is followed one block deep: a statement drawn  *)
(* inside a block is one of the kinds that open no block.                 *)
(***************************************************************************)
EXTENDS Integers, Sequences, FiniteSets, TLC

VARIABLES status, call, stack, out, obs

vars == <<status, call, stack, out, obs>>

(***************************************************************************)
(* Bounds of the model.                                                    *)
(***************************************************************************)
\* identifier lengths tried are -MaxNeg..MaxLen
MaxLen == 3
\* the most negative length, depth or count tried is -MaxNeg
MaxNeg == 1
\* expression depths tried are -MaxNeg..MaxDepth
MaxDepth == 4
\* explicit declaration, statement and argument counts tried are -MaxNeg..MaxCount
MaxCount == 2

(***************************************************************************)
(* Python values passed as flags: a bool or an int.                        *)
(***************************************************************************)
Bool(b) == [ty |-> "bool", v |-> IF b THEN 1 ELSE 0]
IntV(i) == [ty |-> "int", v |-> i]
\* `if x:`
Truthy(x) == x.v # 0
\* an isinstance that does not take a bool for an int
isinstance_int_strict(x) == x.ty = "int"
\* isinstance(x, int): bool is a subclass of int
isinstance_int(x) == x.ty \in {"int", "bool"}
\* a range that counts down as well as up
range_abs(n) == IF n > 0 THEN n ELSE 0 - n
\* len(range(n))
range(n) == IF n > 0 THEN n ELSE 0

rand_int(a, b) == a..b
rand_bool == {Bool(TRUE), Bool(FALSE)}
\* a range one longer than the code draws
rand_range_wide == {range(n) : n \in rand_int(1, 6)}
\* range(rand_int(1, 5)), by its length
rand_range == {range(n) : n \in rand_int(1, 5)}
randint_ == rand_int(1, 10)
\* the outcomes of a test `random.random() > p` or `random.random() < p`
Coin == BOOLEAN

(***************************************************************************)
(* Integers of more than 31 bits, as <<q, r>> for q * 2^16 + r.            *)
(***************************************************************************)
Limb == 2 ^ 16
Big(q, r) == <<q, r>>
BigLeq(a, b) == a[1] < b[1] \/ (a[1] = b[1] /\ a[2] <= b[2])
BigSucc(a) == IF a[2] = Limb - 1 THEN <<a[1] + 1, 0>> ELSE <<a[1], a[2] + 1>>
BigPred(a) == IF a[2] = 0 THEN <<a[1] - 1, Limb - 1>> ELSE <<a[1], a[2] - 1>>
\* 2 ** 31 and -2 ** 31
Pow2_31 == Big(2 ^ 15, 0)
NegPow2_31 == Big(0 - 2 ^ 15, 0)
\* random.randint(lo, hi) over a wide range: both ends are included; the
\* draws kept are the ends, their neighbours and zero
rand_int_wide(lo, hi) == {lo, BigSucc(lo), Big(0, 0), BigPred(hi), hi}

(***************************************************************************)
(* Text.                                                                   *)
(***************************************************************************)
math_ops == {"+", "-", "*", "/"}
rel_ops == {"==", ">", ">=", "<", "<=", "~="}
logic_ops == {"&", "|"}
operators == math_ops \cup rel_ops
data_types == {"integer", "logical", "void"}
whitespaces == {"\n", " "}
\* one character of letters + digits + '_', and one of letters + '_'
id_charset == "c"
char_1_charset == "a"
Keywords == {"if", "while", "else"}

\* The statement scanner: at the start of a statement ("S"), in the header of
\* a block or function ("H"), inside a clause that '.' must end ("C"), or
\* failed ("E").
ScanStep(st, t) ==
    CASE st = "E" -> "E"
      [] t \in whitespaces -> st
      [] t = "." -> IF st = "C" THEN "S" ELSE "E"
      [] t = "[" -> IF st = "H" THEN "S" ELSE "E"
      [] t = "]" -> IF st = "S" THEN "S" ELSE "E"
      [] t = "{" -> IF st = "C" THEN "H" ELSE "E"
      [] t = "}" -> IF st = "H" THEN "H" ELSE "E"
      [] t \in Keywords -> IF st = "S" THEN "H" ELSE "E"
      [] OTHER -> IF st = "S" THEN "C" ELSE st

Open(t, l) == IF t = l THEN <<0, 1>> ELSE <<0, 0>>
Profile(t, l, r) == IF t = r THEN <<1, 0>> ELSE Open(t, l)

\* the empty string
Empty ==
    [sq |-> <<0, 0>>, pa |-> <<0, 0>>,
     tr |-> [S |-> "S", H |-> "H", C |-> "C"], lay |-> <<>>]

\* the text of one token
Tk(t) ==
    [sq |-> Profile(t, "[", "]"), pa |-> Profile(t, "(", ")"),
     tr |-> [S |-> ScanStep("S", t), H |-> ScanStep("H", t), C |-> ScanStep("C", t)],
     lay |-> <<>>]

Max0(n) == IF n > 0 THEN n ELSE 0
\* brackets <<closers unmatched, openers unmatched>> of a then b
Match(a, b) == <<a[1] + Max0(b[1] - a[2]), b[2] + Max0(a[2] - b[1])>>
Then(f, g, st) == IF f[st] = "E" THEN "E" ELSE g[f[st]]

\* a + b
Cat(a, b) ==
    [sq |-> Match(a.sq, b.sq), pa |-> Match(a.pa, b.pa),
     tr |-> [S |-> Then(a.tr, b.tr, "S"), H |-> Then(a.tr, b.tr, "H"),
             C |-> Then(a.tr, b.tr, "C")],
     lay |-> a.lay \o b.lay]

\* an f-string: its parts in order
RECURSIVE F(_)
F(parts) == IF parts = <<>> THEN Empty ELSE Cat(Head(parts), F(Tail(parts)))

\* sep.join(items)
RECURSIVE join(_, _)
join(sep, items) ==
    IF items = <<>> THEN Empty
    ELSE IF Len(items) = 1 THEN items[1]
    ELSE F(<<items[1], sep, join(sep, Tail(items))>>)

\* s, as one unit of the text around it
Unit(kind, s) == [s EXCEPT !.lay = <<kind>>]

Balanced(s) == s.sq = <<0, 0>> /\ s.pa = <<0, 0>>
Terminated(s) == s.tr.S = "S"

whitespace == {Tk(w) : w \in whitespaces}
rand_type == {Tk(t) : t \in data_types}

(***************************************************************************)
(* Lexical primitives.                                                     *)
(***************************************************************************)
\* random.choices(id_charset, k=k): no character when k <= 0
choices(k) == [i \in 1..k |-> id_charset]

rand_id_chars(n) ==
    LET s == <<char_1_charset>>
    IN  IF n = 1 THEN s ELSE s \o choices(n - 1)

rand_id(n) == {IF rand_id_chars(n) = <<>> THEN Empty ELSE Tk("id")}

rand_tuple(tuple_len, member_len) ==
    {F(<<a, Tk(":"), b>>) : a \in rand_id(tuple_len), b \in rand_id(member_len)}

\* the literals rand_lit can return, each with the integers written in it
rand_lit ==
    {[s |-> Tk("int"), ints |-> {i}] : i \in rand_int_wide(NegPow2_31, Pow2_31)}
    \cup {[s |-> Tk("True"), ints |-> {}], [s |-> Tk("False"), ints |-> {}]}
    \cup {[s |-> F(<<Tk("\""), x, Tk("\"")>>), ints |-> {}] : x \in rand_id(10)}

rhs_term ==
    rand_tuple(5, 5) \cup rand_id(5) \cup {Tk("int") : i \in randint_}

logical_terms ==
    {Tk("True"), Tk("False")}
    \cup {F(<<a, Tk(" "), Tk(op), Tk(" "), b>>) :
            a \in rhs_term, op \in rel_ops, b \in rhs_term}

(***************************************************************************)
(* Expressions.  rand_exp gives each text with the number of calls of the *)
(* terminal generator and of operators joined in it.                      *)
(***************************************************************************)
Paren(s, p) == IF p THEN F(<<Tk("("), s, Tk(")")>>) ELSE s

\* rand_exp that stops one level early
RECURSIVE rand_exp_early(_, _, _)
rand_exp_early(exp_gen, ops, depth) ==
    IF depth <= 1
    THEN {[s |-> t, terms |-> 1, ops |-> 0] : t \in exp_gen}
    ELSE LET sub == rand_exp_early(exp_gen, ops, depth - 1)
         IN  {[s |-> F(<<left.s, Tk(" "), Tk(op), Tk(" "), right.s>>),
               terms |-> left.terms + right.terms,
               ops |-> left.ops + 1 + right.ops] :
                left \in sub, right \in sub, op \in ops}

RECURSIVE rand_exp(_, _, _)
rand_exp(exp_gen, ops, depth) ==
    IF depth <= 0
    THEN {[s |-> t, terms |-> 1, ops |-> 0] : t \in exp_gen}
    ELSE LET sub == rand_exp(exp_gen, ops, depth - 1)
         IN  {[s |-> Paren(F(<<Paren(left.s, pl), Tk(" "), Tk(op), Tk(" "),
                               Paren(right.s, pr)>>), pw),
               terms |-> left.terms + right.terms,
               ops |-> left.ops + 1 + right.ops] :
                left \in sub, right \in sub, op \in ops,
                pl \in Coin, pr \in Coin, pw \in Coin}

rand_math_exp(depth) == rand_exp(rhs_term, math_ops, depth)
rand_logical_exp(depth) == rand_exp(logical_terms, logic_ops, depth)

(***************************************************************************)
(* Statements and sections that make no nested call.                       *)
(***************************************************************************)
generate_postfix_test(op, tuple_) ==
    {Unit(op, F(<<t, Tk(op), Tk(".")>>)) :
        t \in IF Truthy(tuple_) THEN rand_tuple(5, 5) ELSE rand_id(5)}

generate_io_test(op, tuple_) ==
    {Unit(op, F(<<Tk(op), Tk(" "), t, Tk(".")>>)) :
        t \in IF Truthy(tuple_) THEN rand_tuple(5, 5) ELSE rand_id(5)}

\* one argument of a call: rand_id() or rand_lit()
call_arg == {[s |-> x, ints |-> {}] : x \in rand_id(5)} \cup rand_lit

\* ", ".join of n arguments, with the integers written in them and the
\* number of arguments joined
RECURSIVE call_args(_)
call_args(n) ==
    IF n <= 0 THEN {[s |-> Empty, ints |-> {}, n |-> 0]}
    ELSE IF n = 1 THEN {[s |-> a.s, ints |-> a.ints, n |-> 1] : a \in call_arg}
    ELSE {[s |-> F(<<a.s, Tk(","), Tk(" "), r.s>>), ints |-> a.ints \cup r.ints,
           n |-> 1 + r.n] :
            a \in call_arg, r \in call_args(n - 1)}

generate_func_call_stmt(args) ==
    {[s |-> Unit("call", F(<<f, Tk("("), a.s, Tk(")"), Tk(".")>>)), ints |-> a.ints,
      n |-> a.n] :
        f \in rand_id(5), a \in call_args(range(args))}

generate_assgn_stmt(tuple_lhs, simple, depth) ==
    LET lhs == IF Truthy(tuple_lhs) THEN rand_tuple(5, 5) ELSE rand_id(5)
        rhs == IF Truthy(simple)
               THEN {[s |-> F(<<a, Tk(" "), Tk(op), Tk(" "), b>>),
                      terms |-> 2, ops |-> 1] :
                        a \in rhs_term, op \in operators, b \in rhs_term}
                    \cup {[s |-> a, terms |-> 1, ops |-> 0] : a \in rhs_term}
               ELSE rand_math_exp(depth)
    IN  {[s |-> Unit("=", F(<<l, Tk(" "), Tk("="), Tk(" "), r.s, Tk(".")>>)),
          terms |-> r.terms, ops |-> r.ops] : l \in lhs, r \in rhs}

\* one `<type> <identifier>` of rand_decls, and one of a parameter list
decl_item ==
    {Unit("decl", F(<<w, t, Tk(" "), i>>)) :
        w \in whitespace, t \in rand_type, i \in rand_id(3)}
param_item ==
    {Unit("param", F(<<t, Tk(" "), i>>)) : t \in rand_type, i \in rand_id(3)}

\* n_decls is given by its length
rand_decls(n_decls) ==
    IF n_decls <= 0 THEN {Empty}
    ELSE {F(<<join(Tk("."), items), Tk(".")>>) : items \in [1..n_decls -> decl_item]}

\* f'{range(0, k)}'
range_text(k) ==
    F(<<Tk("range"), Tk("("), Tk("0"), Tk(","), Tk(" "), Tk("k"), Tk(")")>>)

\* rand_ret that does not look at retval
rand_ret_valued(retval) ==
    {Unit("return value", F(<<Tk("return"), Tk(" "), v, Tk(".")>>)) :
        v \in {range_text(k) : k \in rand_range} \cup rand_id(4)
              \cup {Tk("True"), Tk("False")}}

rand_ret(retval) ==
    IF Truthy(retval)
    THEN {Unit("return value", F(<<Tk("return"), Tk(" "), v, Tk(".")>>)) :
            v \in {range_text(k) : k \in rand_range} \cup rand_id(4)
                  \cup {Tk("True"), Tk("False")}}
    ELSE {Unit("return", F(<<Tk("return"), Tk(".")>>))}

func_wrap(stmt) ==
    {F(<<Unit("func", F(<<t, Tk(" "), i>>)), Tk(" "), Tk("{"), Tk("}"), Tk(" "),
         Tk("["), w, stmt, Tk("\n"), Tk("]")>>) :
        t \in rand_type, i \in rand_id(5), w \in whitespace}

\* the lengths n_decls / n_stmts can have for a flag that is truthy
counts(flag) == IF isinstance_int(flag) THEN {range(flag.v)} ELSE rand_range

(***************************************************************************)
(* The call stack.  A frame holds what its call still needs.               *)
(***************************************************************************)
Frame0 ==
    [fn |-> "", pc |-> "", kw |-> "", cond_ |-> Empty, args_ |-> Empty,
     decls_ |-> Empty, stmts_ |-> Empty, ret |-> Bool(FALSE), retval |-> Bool(FALSE),
     left |-> 0, got |-> 0, acc |-> Empty, if_ |-> Empty, else_ |-> Empty,
     rest |-> <<>>]

Top(stk) == stk[Len(stk)]
Below(stk) == SubSeq(stk, 1, Len(stk) - 1)
Push(stk, frames) == stk \o frames

\* a call of generate_random_statment that has not drawn yet
StmtFrame == [Frame0 EXCEPT !.fn = "generate_random_statment", !.pc = "start"]

Running(stk) == [stack |-> stk, done |-> FALSE, out |-> Empty]
Finished(v) == [stack |-> <<>>, done |-> TRUE, out |-> v]

\* rand_stmts: one more statement joined with "\n"
rand_stmts_join(frame, v) ==
    IF frame.got = 0 THEN Unit("stmt", v)
    ELSE F(<<frame.acc, Tk("\n"), Unit("stmt", v)>>)

\* generate_block: what rand_stmts returned is assigned
generate_block_stmts(frame, v) == [frame EXCEPT !.decls_ = v, !.pc = "ret"]

\* generate_func_stmt: what rand_stmts returned is assigned
generate_func_stmt_stmts(frame, v) == [frame EXCEPT !.stmts_ = v, !.pc = "ret"]

\* v is returned to the call on top of stk
RECURSIVE Deliver(_, _)
Deliver(stk, v) ==
    IF stk = <<>> THEN Finished(v)
    ELSE LET top == Top(stk)
             below == Below(stk)
         IN  CASE top.fn = "generate_random_statment" -> Deliver(below, v)
               [] top.fn = "rand_stmts" ->
                    IF top.left > 1
                    THEN Running(Push(below,
                            <<[top EXCEPT !.left = @ - 1, !.got = @ + 1,
                                          !.acc = rand_stmts_join(top, v)],
                              StmtFrame>>))
                    ELSE Deliver(below, rand_stmts_join(top, v))
               [] top.fn = "generate_block" ->
                    Running(Push(below, <<generate_block_stmts(top, v)>>))
               [] top.fn = "generate_func_stmt" ->
                    Running(Push(below, <<generate_func_stmt_stmts(top, v)>>))
               [] top.fn = "generate_if_else_stmt" ->
                    IF top.pc = "if"
                    THEN Running(Push(below, <<[top EXCEPT !.if_ = v, !.pc = "else"]>>))
                    ELSE Running(Push(below, <<[top EXCEPT !.else_ = v, !.pc = "ret"]>>))

\* rand_stmts(n_stmts) is called by `frame`; `empty` is the frame once it is
\* given the '' that rand_stmts returns for no statement
call_rand_stmts(stk, frame, n_stmts, empty) ==
    IF n_stmts <= 0 THEN Push(stk, <<empty>>)
    ELSE Push(stk, <<[frame EXCEPT !.pc = "stmts"],
                     [Frame0 EXCEPT !.fn = "rand_stmts", !.left = n_stmts],
                     StmtFrame>>)

\* rand_logical_exp(0 if simple else rand_int(1, 3)), for simple truthy or not
block_cond ==
    [simple \in BOOLEAN |->
        {Unit("cond", e.s) :
           e \in UNION {rand_logical_exp(d) :
                   d \in IF simple THEN {0} ELSE rand_int(1, 3)}}]

\* generate_block up to its call of rand_stmts: the stacks it can leave
generate_block_begin(stk, keyword, cond, simple, decls, stmts, ret, retval) ==
    LET conds == IF cond THEN block_cond[Truthy(simple)] ELSE {Empty}
        decltexts == IF Truthy(decls)
                     THEN UNION {rand_decls(n) : n \in counts(decls)}
                     ELSE {Empty}
    IN  UNION {
          LET frame == [Frame0 EXCEPT !.fn = "generate_block", !.pc = "ret",
                                      !.kw = keyword, !.cond_ = c, !.decls_ = d,
                                      !.ret = ret, !.retval = retval]
          IN  IF Truthy(stmts)
              THEN {call_rand_stmts(stk, frame, n, generate_block_stmts(frame, Empty)) :
                      n \in counts(stmts)}
              ELSE {Push(stk, <<frame>>)} :
          c \in conds, d \in decltexts}

\* generate_block that does not close its block
generate_block_unclosed(frame) ==
    LET rets == IF Truthy(frame.ret) THEN rand_ret(frame.retval) ELSE {Empty}
    IN  {F(<<Unit(frame.kw, Tk(frame.kw)), Tk(" "), frame.cond_, w1, Tk("["), w2,
             frame.decls_, w3, frame.stmts_, w4, r, w5>>) :
           r \in rets, w1 \in whitespace, w2 \in whitespace, w3 \in whitespace,
           w4 \in whitespace, w5 \in whitespace}

\* generate_block from its return section on
generate_block_end(frame) ==
    LET rets == IF Truthy(frame.ret) THEN rand_ret(frame.retval) ELSE {Empty}
    IN  {F(<<Unit(frame.kw, Tk(frame.kw)), Tk(" "), frame.cond_, w1, Tk("["), w2,
             frame.decls_, w3, frame.stmts_, w4, r, w5, Tk("]"), w6>>) :
           r \in rets, w1 \in whitespace, w2 \in whitespace, w3 \in whitespace,
           w4 \in whitespace, w5 \in whitespace, w6 \in whitespace}

\* generate_if_else_stmt up to the call of rand_stmts in its if block
generate_if_else_stmt_begin(stk, a) ==
    generate_block_begin(
        Push(stk, <<[Frame0 EXCEPT !.fn = "generate_if_else_stmt", !.pc = "if",
                                   !.rest = <<a[6], a[7], a[8], a[9]>>]>>),
        "if", TRUE, a[1], a[2], a[3], a[4], a[5])

\* generate_if_else_stmt from its call of generate_else_stmt on
generate_if_else_stmt_else(stk) ==
    LET top == Top(stk)
    IN  generate_block_begin(
            Push(Below(stk), <<[top EXCEPT !.pc = "else_wait"]>>),
            "else", FALSE, Bool(TRUE),
            top.rest[1], top.rest[2], top.rest[3], top.rest[4])

generate_if_else_stmt_end(frame) ==
    {F(<<frame.if_, w, frame.else_>>) : w \in whitespace}

\* generate_func_stmt up to its call of rand_stmts
generate_func_stmt_begin(stk, args, decls, stmts, ret, retval) ==
    LET argtexts == IF Truthy(args)
                    THEN UNION {{join(F(<<Tk(","), Tk(" ")>>), items) :
                                   items \in [1..n -> param_item]} : n \in rand_range}
                    ELSE {Empty}
        decltexts == IF Truthy(decls)
                     THEN UNION {rand_decls(n) : n \in counts(decls)}
                     ELSE {Empty}
    IN  UNION {
          LET frame == [Frame0 EXCEPT !.fn = "generate_func_stmt", !.pc = "ret",
                                      !.args_ = a, !.decls_ = d,
                                      !.ret = ret, !.retval = retval]
          IN  IF Truthy(stmts)
              THEN {call_rand_stmts(stk, frame, n, generate_func_stmt_stmts(frame, Empty)) :
                      n \in counts(IF Truthy(stmts) THEN stmts ELSE IntV(1))}
              ELSE {Push(stk, <<frame>>)} :
          a \in argtexts, d \in decltexts}

generate_func_stmt_end(frame) ==
    LET rets == IF Truthy(frame.ret) THEN rand_ret(frame.retval) ELSE {Empty}
    IN  {F(<<Unit("func", F(<<t, Tk(" "), i>>)), Tk(" "), Tk("{"), frame.args_,
             Tk("}"), Tk(" "), Tk("["), w1, frame.decls_, w2, frame.stmts_, w3, r,
             Tk("\n"), Tk("]")>>) :
           t \in rand_type, i \in rand_id(5), r \in rets,
           w1 \in whitespace, w2 \in whitespace, w3 \in whitespace}

(***************************************************************************)
(* generate_random_statment: the call it makes on the draw n.              *)
(***************************************************************************)
Call(fn, args) == [fn |-> fn, args |-> args]

\* a dispatcher that asks for up to five arguments
dispatch_wide(n) ==
    CASE n = 1 -> {Call("generate_post_incr_stmt", <<t>>) : t \in rand_bool}
      [] n = 2 -> {Call("generate_post_decr_stmt", <<t>>) : t \in rand_bool}
      [] n = 3 -> {Call("generate_if_stmt", a) : a \in [1..5 -> rand_bool]}
      [] n = 4 -> {Call("generate_if_else_stmt", a) : a \in [1..9 -> rand_bool]}
      [] n = 5 -> {Call("generate_while_stmt", a) : a \in [1..5 -> rand_bool]}
      [] n = 6 -> {Call("generate_read_stmt", <<t>>) : t \in rand_bool}
      [] n = 7 -> {Call("generate_write_stmt", <<t>>) : t \in rand_bool}
      [] n = 8 -> {Call("generate_func_call_stmt", <<IntV(k)>>) : k \in rand_int(0, 5)}
      [] OTHER -> {Call("generate_assgn_stmt", <<t, s, IntV(d)>>) :
                     t \in rand_bool, s \in rand_bool, d \in rand_int(0, 2)}

dispatch(n) ==
    CASE n = 1 -> {Call("generate_post_incr_stmt", <<t>>) : t \in rand_bool}
      [] n = 2 -> {Call("generate_post_decr_stmt", <<t>>) : t \in rand_bool}
      [] n = 3 -> {Call("generate_if_stmt", a) : a \in [1..5 -> rand_bool]}
      [] n = 4 -> {Call("generate_if_else_stmt", a) : a \in [1..9 -> rand_bool]}
      [] n = 5 -> {Call("generate_while_stmt", a) : a \in [1..5 -> rand_bool]}
      [] n = 6 -> {Call("generate_read_stmt", <<t>>) : t \in rand_bool}
      [] n = 7 -> {Call("generate_write_stmt", <<t>>) : t \in rand_bool}
      [] n = 8 -> {Call("generate_func_call_stmt", <<IntV(k)>>) : k \in rand_int(0, 4)}
      [] OTHER -> {Call("generate_assgn_stmt", <<t, s, IntV(d)>>) :
                     t \in rand_bool, s \in rand_bool, d \in rand_int(0, 2)}

\* the functools.partial objects made of generate_block
BlockFns == {"generate_if_stmt", "generate_while_stmt", "generate_else_stmt"}
keyword_of(fn) ==
    CASE fn = "generate_if_stmt" -> "if"
      [] fn = "generate_while_stmt" -> "while"
      [] OTHER -> "else"
cond_of(fn) == fn # "generate_else_stmt"

\* the texts a call that makes no nested call can return
leaf_text(c) ==
    LET a == c.args
    IN  CASE c.fn = "generate_post_incr_stmt" -> generate_postfix_test("++", a[1])
          [] c.fn = "generate_post_decr_stmt" -> generate_postfix_test("--", a[1])
          [] c.fn = "generate_read_stmt" -> generate_io_test("read >>", a[1])
          [] c.fn = "generate_write_stmt" -> generate_io_test("write <<", a[1])
          [] c.fn = "generate_func_call_stmt" ->
               {r.s : r \in generate_func_call_stmt(a[1].v)}
          [] c.fn = "generate_assgn_stmt" ->
               {r.s : r \in generate_assgn_stmt(a[1], a[2], a[3].v)}

LeafFns ==
    {"generate_post_incr_stmt", "generate_post_decr_stmt", "generate_read_stmt",
     "generate_write_stmt", "generate_func_call_stmt", "generate_assgn_stmt"}

\* leaf_text, for the calls generate_random_statment makes
leaf_texts ==
    [c \in {d \in UNION {dispatch(n) : n \in rand_int(1, 9)} : d.fn \in LeafFns}
        |-> leaf_text(c)]

\* the call c is made with stk below it: what the machine can be left in
Invoke(stk, c) ==
    LET a == c.args
    IN  CASE c.fn \in LeafFns ->
               {Deliver(stk, s) :
                  s \in IF c \in DOMAIN leaf_texts THEN leaf_texts[c] ELSE leaf_text(c)}
          [] c.fn \in BlockFns ->
               {Running(s) :
                  s \in generate_block_begin(stk, keyword_of(c.fn), cond_of(c.fn),
                                             a[1], a[2], a[3], a[4], a[5])}
          [] c.fn = "generate_if_else_stmt" ->
               {Running(s) : s \in generate_if_else_stmt_begin(stk, a)}
          [] c.fn = "generate_func_stmt" ->
               {Running(s) :
                  s \in generate_func_stmt_begin(stk, a[1], a[2], a[3], a[4], a[5])}
          [] c.fn = "generate_random_statment" ->
               {Running(Push(stk, <<StmtFrame>>))}

\* the call on top of stk runs inside a block or a function body
Enclosed(stk) ==
    \E i \in DOMAIN stk : stk[i].fn \in {"generate_block", "generate_func_stmt"}

NestedFns == BlockFns \cup {"generate_if_else_stmt"}

(***************************************************************************)
(* State: the call made by the user, the call stack, the text returned,    *)
(* and what was seen of the call.                                          *)
(***************************************************************************)
NoCall == Call("none", <<>>)
NoObs == [terms |-> 0, ops |-> 0, len |-> 0, args |-> 0, ints |-> {}, disp |-> NoCall]

Init ==
    /\ status = "idle"
    /\ call = NoCall
    /\ stack = <<>>
    /\ out = Empty
    /\ obs = NoObs

Lengths == (0 - MaxNeg)..MaxLen
Depths == (0 - MaxNeg)..MaxDepth
Counts == (0 - MaxNeg)..MaxCount
\* a flag given by the user: a bool, or an int
Flags == rand_bool \cup {IntV(i) : i \in Counts}

\* a call by the user that returns at once
Returns(c, s, o) ==
    /\ status = "idle"
    /\ status' = "done"
    /\ call' = c
    /\ out' = s
    /\ obs' = o
    /\ UNCHANGED stack

\* a call by the user that leaves the machine in cfg
Starts(c, cfg) ==
    /\ status = "idle"
    /\ status' = IF cfg.done THEN "done" ELSE "run"
    /\ call' = c
    /\ stack' = cfg.stack
    /\ out' = cfg.out
    /\ obs' = NoObs

\* a step of the call on top of the stack that leaves the machine in cfg
Steps(cfg, o) ==
    /\ status' = IF cfg.done THEN "done" ELSE "run"
    /\ stack' = cfg.stack
    /\ out' = cfg.out
    /\ obs' = o
    /\ UNCHANGED call

call_rand_id ==
    \E n \in Lengths : \E s \in rand_id(n) :
        Returns(Call("rand_id", <<IntV(n)>>), s,
                [NoObs EXCEPT !.len = Len(rand_id_chars(n))])

call_rand_lit ==
    \E l \in rand_lit :
        Returns(Call("rand_lit", <<>>), l.s, [NoObs EXCEPT !.ints = l.ints])

call_rand_exp ==
    \E d \in Depths :
        \/ \E e \in rand_math_exp(d) :
             Returns(Call("rand_math_exp", <<IntV(d)>>), e.s,
                     [NoObs EXCEPT !.terms = e.terms, !.ops = e.ops])
        \/ \E e \in rand_logical_exp(d) :
             Returns(Call("rand_logical_exp", <<IntV(d)>>), e.s,
                     [NoObs EXCEPT !.terms = e.terms, !.ops = e.ops])

call_generate_postfix_test ==
    \E fn \in {"generate_post_incr_stmt", "generate_post_decr_stmt"} :
        \E t \in rand_bool : \E cfg \in Invoke(<<>>, Call(fn, <<t>>)) :
            Starts(Call(fn, <<t>>), cfg)

call_generate_io_test ==
    \E fn \in {"generate_read_stmt", "generate_write_stmt"} :
        \E t \in rand_bool : \E cfg \in Invoke(<<>>, Call(fn, <<t>>)) :
            Starts(Call(fn, <<t>>), cfg)

call_generate_func_call_stmt ==
    \E n \in Counts : \E r \in generate_func_call_stmt(n) :
        Returns(Call("generate_func_call_stmt", <<IntV(n)>>), r.s,
                [NoObs EXCEPT !.ints = r.ints, !.args = r.n])

call_generate_assgn_stmt ==
    \E t \in rand_bool, s \in rand_bool, d \in Depths :
        \E r \in generate_assgn_stmt(t, s, d) :
            Returns(Call("generate_assgn_stmt", <<t, s, IntV(d)>>), r.s,
                    [NoObs EXCEPT !.terms = r.terms, !.ops = r.ops])

call_generate_block ==
    \E fn \in BlockFns :
        \E simple \in rand_bool, decls \in Flags, stmts \in Flags,
           ret \in rand_bool, retval \in rand_bool :
            LET c == Call(fn, <<simple, decls, stmts, ret, retval>>)
            IN  \E cfg \in Invoke(<<>>, c) : Starts(c, cfg)

call_generate_if_else_stmt ==
    \E a \in [1..9 -> rand_bool] :
        \E cfg \in Invoke(<<>>, Call("generate_if_else_stmt", a)) :
            Starts(Call("generate_if_else_stmt", a), cfg)

call_generate_func_stmt ==
    \E args \in Flags, decls \in Flags, stmts \in Flags,
       ret \in rand_bool, retval \in rand_bool :
        LET c == Call("generate_func_stmt", <<args, decls, stmts, ret, retval>>)
        IN  \E cfg \in Invoke(<<>>, c) : Starts(c, cfg)

call_generate_random_statment ==
    \E cfg \in Invoke(<<>>, Call("generate_random_statment", <<>>)) :
        Starts(Call("generate_random_statment", <<>>), cfg)

\* the functions generate_random_statment calls on some draw
StatementFns == {c.fn : c \in UNION {dispatch(n) : n \in rand_int(1, 9)}}

\* func_wrap of the statement that was generated last
call_func_wrap ==
    /\ status = "done"
    /\ call.fn \in StatementFns
    /\ \E s \in func_wrap(out) :
        /\ call' = Call("func_wrap", <<>>)
        /\ out' = s
        /\ UNCHANGED <<status, stack, obs>>

\* generate_random_statment draws and makes its call.  The recursion is
\* followed one block deep: a statement drawn inside a block is one of the
\* kinds that open no block of their own.
generate_random_statment ==
    /\ status = "run"
    /\ Top(stack).fn = "generate_random_statment"
    /\ Top(stack).pc = "start"
    /\ \E n \in rand_int(1, 9) : \E c \in dispatch(n) :
        /\ c.fn \in NestedFns => ~Enclosed(stack)
        /\ \E cfg \in Invoke(Push(Below(stack), <<[Top(stack) EXCEPT !.pc = "wait"]>>), c) :
             Steps(cfg, IF Len(stack) = 1 THEN [NoObs EXCEPT !.disp = c] ELSE obs)

generate_block ==
    /\ status = "run"
    /\ Top(stack).fn = "generate_block"
    /\ Top(stack).pc = "ret"
    /\ \E s \in generate_block_end(Top(stack)) :
         Steps(Deliver(Below(stack), s), obs)

generate_if_else_stmt ==
    /\ status = "run"
    /\ Top(stack).fn = "generate_if_else_stmt"
    /\ \/ /\ Top(stack).pc = "else"
          /\ \E stk \in generate_if_else_stmt_else(stack) : Steps(Running(stk), obs)
       \/ /\ Top(stack).pc = "ret"
          /\ \E s \in generate_if_else_stmt_end(Top(stack)) :
               Steps(Deliver(Below(stack), s), obs)

generate_func_stmt ==
    /\ status = "run"
    /\ Top(stack).fn = "generate_func_stmt"
    /\ Top(stack).pc = "ret"
    /\ \E s \in generate_func_stmt_end(Top(stack)) :
         Steps(Deliver(Below(stack), s), obs)

Next ==
    \/ call_rand_id
    \/ call_rand_lit
    \/ call_rand_exp
    \/ call_generate_postfix_test
    \/ call_generate_io_test
    \/ call_generate_func_call_stmt
    \/ call_generate_assgn_stmt
    \/ call_generate_block
    \/ call_generate_if_else_stmt
    \/ call_generate_func_stmt
    \/ call_generate_random_statment
    \/ call_func_wrap
    \/ generate_random_statment
    \/ generate_block
    \/ generate_if_else_stmt
    \/ generate_func_stmt

Spec == Init /\ [][Next]_vars

(***************************************************************************)
(* What is read off a call that has returned.                              *)
(***************************************************************************)
Returned == status = "done"
\* the units of one kind in a text
Count(kind, s) == Cardinality({i \in DOMAIN s.lay : s.lay[i] = kind})
\* the return section a block ends with
ReturnSection(s) ==
    IF s.lay # <<>> /\ s.lay[Len(s.lay)] \in {"return", "return value"}
    THEN s.lay[Len(s.lay)]
    ELSE "none"
BlockCalls == BlockFns \cup {"generate_func_stmt"}
ExpFns == {"rand_math_exp", "rand_logical_exp"}
IsBool(x) == x.ty = "bool"
IsInt(x) == x.ty = "int"

(***************************************************************************)
(* C1                                                                      *)
(***************************************************************************)
\* C1: the text returned by every statement or block generator, by
\* generate_func_stmt and by func_wrap, for every parameter and every draw,
\* closes each '[' and each '(' it opens, closes none it did not open, and
\* ends each clause with '.'.
C1_WellFormed ==
    (Returned /\ call.fn \in StatementFns \cup {"generate_random_statment",
                                                 "generate_func_stmt", "func_wrap"})
        => Balanced(out) /\ Terminated(out)

C1_Witness ==
    /\ Returned
    /\ call.fn = "generate_if_else_stmt"
    /\ Count("stmt", out) >= 2
    /\ Count("return value", out) >= 1
    /\ Count("else", out) = 1
    /\ Balanced(out)
    /\ Terminated(out)

(***************************************************************************)
(* C2                                                                      *)
(***************************************************************************)
\* C2, as the specification states it: generate_block and generate_func_stmt
\* end with the bare 'return.' when ret is false or retval is false, and
\* with 'return <value>.' only when both are true.
C2_BareWhenNoRet ==
    (Returned /\ call.fn \in BlockCalls)
        => ReturnSection(out) =
             IF Truthy(call.args[4]) /\ Truthy(call.args[5])
             THEN "return value" ELSE "return"

\* C2, amended: with ret false there is no return section at all; with ret
\* true the section is the bare 'return.' when retval is false and
\* 'return <value>.' when retval is true.
C2_ReturnSection ==
    (Returned /\ call.fn \in BlockCalls)
        => ReturnSection(out) =
             IF ~Truthy(call.args[4]) THEN "none"
             ELSE IF Truthy(call.args[5]) THEN "return value" ELSE "return"

C2_Witness ==
    /\ Returned
    /\ call.fn = "generate_while_stmt"
    /\ ~Truthy(call.args[4])
    /\ Truthy(call.args[5])
    /\ ReturnSection(out) = "none"

(***************************************************************************)
(* C3                                                                      *)
(***************************************************************************)
\* the flag asks for a section: True, or a positive int
Asked(flag) == flag.v > 0

\* C3: a block asked for declarations and for statements holds the
\* declarations asked for and, after them, the statements asked for.
C3_DeclsThenStmts ==
    (Returned /\ call.fn \in BlockFns /\ Asked(call.args[2]) /\ Asked(call.args[3]))
        => /\ Count("decl", out) \in counts(call.args[2])
           /\ Count("stmt", out) \in counts(call.args[3])
           /\ \A i, j \in DOMAIN out.lay :
                out.lay[i] = "decl" /\ out.lay[j] = "stmt" => i < j

(***************************************************************************)
(* C4                                                                      *)
(***************************************************************************)
\* two frames of one call: the same function with the same arguments
SameCall(f, g) == [f EXCEPT !.pc = ""] = [g EXCEPT !.pc = ""]

\* C4: the recursion goes down: no call is made again, with the same
\* arguments, while it is still pending, so the chain generate_block ->
\* rand_stmts -> generate_random_statment cannot go on for ever.
C4_RecursionDescends ==
    \A i, j \in DOMAIN stack : i < j => ~SameCall(stack[i], stack[j])

(***************************************************************************)
(* C5                                                                      *)
(***************************************************************************)
\* C5: rand_exp at depth d >= 0 calls the terminal generator 2^d times and
\* joins what it returns with 2^d - 1 operators; so does the right-hand
\* side of generate_assgn_stmt(simple=False, depth=d).
C5_TermsAndOps ==
    /\ (Returned /\ call.fn \in ExpFns /\ call.args[1].v >= 0)
         => /\ obs.terms = 2 ^ call.args[1].v
            /\ obs.ops = 2 ^ call.args[1].v - 1
    /\ (Returned /\ call.fn = "generate_assgn_stmt" /\ ~Truthy(call.args[2])
          /\ call.args[3].v >= 0)
         => /\ obs.terms = 2 ^ call.args[3].v
            /\ obs.ops = 2 ^ call.args[3].v - 1

C5_Witness ==
    /\ Returned
    /\ call.fn = "rand_math_exp"
    /\ call.args[1].v = MaxDepth
    /\ obs.terms = 2 ^ MaxDepth
    /\ obs.ops = 2 ^ MaxDepth - 1

(***************************************************************************)
(* C7                                                                      *)
(***************************************************************************)
Kinds ==
    {"generate_post_incr_stmt", "generate_post_decr_stmt", "generate_if_stmt",
     "generate_if_else_stmt", "generate_while_stmt", "generate_read_stmt",
     "generate_write_stmt", "generate_func_call_stmt", "generate_assgn_stmt"}

\* each flag is drawn on its own: every combination of flags is passed on
\* some draw
FlagsIndependent ==
    /\ {c.args : c \in dispatch(1)} = [1..1 -> rand_bool]
    /\ {c.args : c \in dispatch(3)} = [1..5 -> rand_bool]
    /\ {c.args : c \in dispatch(4)} = [1..9 -> rand_bool]
    /\ {c.args : c \in dispatch(5)} = [1..5 -> rand_bool]
    /\ {<<c.args[1], c.args[2]>> : c \in dispatch(9)} = [1..2 -> rand_bool]

\* C7: the call generate_random_statment makes is one of the nine kinds,
\* each kind is made on some draw, a function call is asked for 0..4
\* arguments, an assignment for a depth in 0..2, and every other argument
\* is a coin flip.
C7_Dispatch ==
    /\ StatementFns = Kinds
    /\ FlagsIndependent
    /\ (call.fn = "generate_random_statment" /\ obs.disp # NoCall)
         => LET c == obs.disp
            IN  /\ c.fn \in Kinds
                /\ c.fn = "generate_func_call_stmt"
                     => /\ Len(c.args) = 1
                        /\ IsInt(c.args[1])
                        /\ c.args[1].v \in 0..4
                /\ c.fn = "generate_assgn_stmt"
                     => /\ Len(c.args) = 3
                        /\ IsBool(c.args[1])
                        /\ IsBool(c.args[2])
                        /\ IsInt(c.args[3])
                        /\ c.args[3].v \in 0..2
                /\ c.fn \notin {"generate_func_call_stmt", "generate_assgn_stmt"}
                     => \A i \in DOMAIN c.args : IsBool(c.args[i])

C7_Witness ==
    /\ Returned
    /\ call.fn = "generate_random_statment"
    /\ obs.disp.fn = "generate_func_call_stmt"
    /\ obs.disp.args[1].v = 4

(***************************************************************************)
(* C8                                                                      *)
(***************************************************************************)
Int32(i) == BigLeq(NegPow2_31, i) /\ BigLeq(i, BigPred(Pow2_31))

\* C8: every integer literal written by rand_lit, alone or as an argument
\* of a function call, is in -2^31 .. 2^31 - 1.
C8_Int32 == \A i \in obs.ints : Int32(i)

(***************************************************************************)
(* C9                                                                      *)
(***************************************************************************)
\* C9, as the specification states it: generate_func_stmt writes between 0
\* and 4 parameters, never 5 or more.
C9_AtMostFour ==
    (Returned /\ call.fn = "generate_func_stmt") => Count("param", out) \in 0..4

\* C9, amended: generate_func_stmt writes a function header and no
\* parameter when args is false, and between 1 and 5 parameters when args
\* is true; it never writes 6 or more.
C9_Params ==
    (Returned /\ call.fn = "generate_func_stmt")
        => /\ out.lay[1] = "func"
           /\ Count("param", out) \in
                (IF Truthy(call.args[1]) THEN 1..5 ELSE {0})

C9_Witness ==
    /\ Returned
    /\ call.fn = "generate_func_stmt"
    /\ Truthy(call.args[1])
    /\ Count("param", out) = 5

(***************************************************************************)
(* C10                                                                     *)
(***************************************************************************)
\* the call was given a length, depth or count that is not valid
InvalidNumber(c) ==
    \/ c.fn = "rand_id" /\ c.args[1].v <= 0
    \/ c.fn \in ExpFns /\ c.args[1].v < 0
    \/ c.fn = "generate_assgn_stmt" /\ c.args[3].v < 0
    \/ c.fn = "generate_func_call_stmt" /\ c.args[1].v < 0
    \/ c.fn \in BlockCalls /\ (c.args[2].v < 0 \/ c.args[3].v < 0)

AskedOf(frame) == frame.left + frame.got
RandStmtsFrames == {i \in DOMAIN stack : stack[i].fn = "rand_stmts"}

\* C11: in generate_block and generate_func_stmt the count of declarations
\* and of statements is the flag read as an int, True being 1, and is never
\* drawn with rand_range; so a block made through generate_random_statment
\* or generate_if_else_stmt, whose flags are all bools, asks rand_stmts for
\* one statement and holds at most one.
C11_TrueIsOne ==
    /\ (call.fn \in BlockCalls /\ stack # <<>>)
         => /\ stack[1].pc = "stmts"
                 => Count("decl", stack[1].decls_) = range(call.args[2].v)
            /\ \A i \in RandStmtsFrames : AskedOf(stack[i]) = range(call.args[3].v)
    /\ call.fn \in {"generate_random_statment", "generate_if_else_stmt"}
         => \A i \in RandStmtsFrames : AskedOf(stack[i]) = 1
    /\ (Returned /\ call.fn \in BlockCalls)
         => Count("stmt", out) = range(call.args[3].v)
    /\ (Returned /\ call.fn = "generate_func_stmt")
         => Count("decl", out) = range(call.args[2].v)
    /\ (Returned /\ call.fn = "generate_random_statment"
          /\ obs.disp.fn \in {"generate_if_stmt", "generate_while_stmt"})
         => Count("stmt", out) <= 1
    /\ (Returned /\ call.fn = "generate_random_statment"
          /\ obs.disp.fn = "generate_if_else_stmt")
         => Count("stmt", out) <= 2

C11_Witness ==
    /\ Returned
    /\ call.fn = "generate_random_statment"
    /\ obs.disp.fn = "generate_while_stmt"
    /\ obs.disp.args[3] = Bool(TRUE)
    /\ Count("stmt", out) = 1
====
